---- MODULE Spec2Model ----
(***************************************************************************)
(* Solar PV dashboard: the two Prometheus exporters (the CSV-driven batch  *)
(* exporter and the weather-API-driven live exporter), their refresh       *)
(* loops, and the derived-metric calculators of the exporters and the two  *)
(* dashboards.                                                             *)
(*                                                                         *)
(* Python floats are IEEE-754 binary64.  The calculators are modelled with *)
(* binary64 arithmetic (round to nearest, ties to even) on an unbounded    *)
(* exponent range: the magnitudes the model feeds them stay far from the   *)
(* subnormal and the overflow ranges, and NaN and infinities are not       *)
(* modelled.  A zero carries no sign (-0.0 and 0.0 compare equal).         *)
(***************************************************************************)
EXTENDS Integers, Sequences, FiniteSets, TLC

(***************************************************************************)
(* Natural numbers of any size: little-endian sequences of limbs in base   *)
(* 2^15, without leading zero limbs; zero is the empty sequence.           *)
(***************************************************************************)
Base == 2^15

RECURSIVE BNorm(_)
BNorm(a) ==
  IF a = <<>> THEN <<>>
  ELSE IF a[Len(a)] = 0 THEN BNorm(SubSeq(a, 1, Len(a) - 1)) ELSE a

RECURSIVE BFromNat(_)
BFromNat(n) == IF n = 0 THEN <<>> ELSE <<n % Base>> \o BFromNat(n \div Base)

RECURSIVE BAddC(_, _, _)
BAddC(a, b, c) ==
  IF a = <<>> /\ b = <<>> THEN (IF c = 0 THEN <<>> ELSE <<c>>)
  ELSE LET x == IF a = <<>> THEN 0 ELSE Head(a)
           y == IF b = <<>> THEN 0 ELSE Head(b)
           s == x + y + c
       IN  <<s % Base>> \o BAddC(IF a = <<>> THEN <<>> ELSE Tail(a),
                                 IF b = <<>> THEN <<>> ELSE Tail(b),
                                 s \div Base)

BAdd(a, b) == BAddC(a, b, 0)

RECURSIVE BSubC(_, _, _)
BSubC(a, b, br) ==
  IF a = <<>> THEN <<>>
  ELSE LET y == IF b = <<>> THEN 0 ELSE Head(b)
           d == Head(a) - y - br
       IN  <<IF d < 0 THEN d + Base ELSE d>>
             \o BSubC(Tail(a), IF b = <<>> THEN <<>> ELSE Tail(b),
                      IF d < 0 THEN 1 ELSE 0)

\* a - b, for a >= b
BSub(a, b) == BNorm(BSubC(a, b, 0))

RECURSIVE BCmpAt(_, _, _)
BCmpAt(a, b, i) ==
  IF i = 0 THEN 0
  ELSE IF a[i] # b[i] THEN (IF a[i] < b[i] THEN -1 ELSE 1)
  ELSE BCmpAt(a, b, i - 1)

\* -1, 0 or 1 as a < b, a = b or a > b
BCmp(a, b) ==
  IF Len(a) # Len(b) THEN (IF Len(a) < Len(b) THEN -1 ELSE 1)
  ELSE BCmpAt(a, b, Len(a))

RECURSIVE BMulSmallC(_, _, _)
BMulSmallC(a, k, c) ==
  IF a = <<>> THEN (IF c = 0 THEN <<>> ELSE <<c>>)
  ELSE LET p == Head(a) * k + c
       IN  <<p % Base>> \o BMulSmallC(Tail(a), k, p \div Base)

\* a * k, for 0 <= k < Base
BMulSmall(a, k) == IF k = 0 THEN <<>> ELSE BMulSmallC(a, k, 0)

RECURSIVE BMul(_, _)
BMul(a, b) ==
  IF b = <<>> \/ a = <<>> THEN <<>>
  ELSE LET r == BMul(a, Tail(b))
       IN  BAdd(BMulSmall(a, Head(b)), IF r = <<>> THEN <<>> ELSE <<0>> \o r)

RECURSIVE BDivSmallAt(_, _, _, _)
BDivSmallAt(a, k, i, rem) ==
  IF i = 0 THEN [q |-> <<>>, r |-> rem]
  ELSE LET cur  == rem * Base + a[i]
           rest == BDivSmallAt(a, k, i - 1, cur % k)
       IN  [q |-> rest.q \o <<cur \div k>>, r |-> rest.r]

\* floor(a / k), for 0 < k < Base
BDivSmall(a, k) == BNorm(BDivSmallAt(a, k, Len(a), 0).q)

\* a * 2^n
BShl(a, n) ==
  IF a = <<>> THEN <<>>
  ELSE [i \in 1..(n \div 15) |-> 0] \o BMulSmall(a, 2^(n % 15))

\* floor(a / 2^n)
BShr(a, n) ==
  IF Len(a) <= n \div 15 THEN <<>>
  ELSE BDivSmall(SubSeq(a, (n \div 15) + 1, Len(a)), 2^(n % 15))

RECURSIVE SmallBitLen(_)
SmallBitLen(x) == IF x = 0 THEN 0 ELSE 1 + SmallBitLen(x \div 2)

BBitLen(a) == IF a = <<>> THEN 0 ELSE 15 * (Len(a) - 1) + SmallBitLen(a[Len(a)])

BIsOdd(a) == a # <<>> /\ a[1] % 2 = 1

RECURSIVE SmallTrailingZeros(_)
SmallTrailingZeros(x) == IF x % 2 = 1 THEN 0 ELSE 1 + SmallTrailingZeros(x \div 2)

\* The number of trailing zero bits of a # 0
RECURSIVE BTrailingZeros(_)
BTrailingZeros(a) ==
  IF Head(a) = 0 THEN 15 + BTrailingZeros(Tail(a)) ELSE SmallTrailingZeros(Head(a))

(***************************************************************************)
(* binary64 values: (-1)^s * m * 2^e with m a 53-bit natural (its top bit  *)
(* set), or m = <<>> for zero.                                             *)
(***************************************************************************)
FZero == [s |-> 0, m |-> <<>>, e |-> 0]

FIsZero(x) == x.m = <<>>

FPack(s, m, e) == IF m = <<>> THEN FZero ELSE [s |-> s, m |-> m, e |-> e]

\* -1, 0 or 1 as the low sh bits of n are below, equal to or above half a unit
\* of bit sh
BHalfCmp(n, sh) == BCmp(BSub(n, BShl(BShr(n, sh), sh)), BShl(<<1>>, sh - 1))

\* q when it has 53 bits, halved when rounding up made it 2^53
FRoundCarry(s, q, e) ==
  IF BBitLen(q) = 54 THEN FPack(s, BShr(q, 1), e + 1) ELSE FPack(s, q, e)

\* q the bits kept, c how the bits dropped compare with a half: ties to even
FRoundCut(s, q, e, c) ==
  FRoundCarry(s, IF c = 1 \/ (c = 0 /\ BIsOdd(q)) THEN BAdd(q, <<1>>) ELSE q, e)

FRoundAt(s, n, e, len) ==
  IF len <= 53 THEN FPack(s, BShl(n, 53 - len), e - (53 - len))
  ELSE FRoundCut(s, BShr(n, len - 53), e + (len - 53), BHalfCmp(n, len - 53))

\* The binary64 nearest to (-1)^s * n * 2^e, ties to even.
FRound(s, n, e) == FRoundAt(s, n, e, BBitLen(n))

\* float(n) of a Python int
FromInt(n) == FRound(IF n < 0 THEN 1 ELSE 0, BFromNat(IF n < 0 THEN -n ELSE n), 0)

FNeg(x) == IF FIsZero(x) THEN x ELSE [x EXCEPT !.s = 1 - x.s]

FMul(x, y) ==
  IF FIsZero(x) \/ FIsZero(y) THEN FZero
  ELSE FRound((x.s + y.s) % 2, BMul(x.m, y.m), x.e + y.e)

\* (-1)^sx * a * 2^e + (-1)^sy * b * 2^e for sx # sy, c comparing a with b
FAddOpposite(sx, a, sy, b, e, c) ==
  IF c = 0 THEN FZero
  ELSE FRound(IF c = 1 THEN sx ELSE sy, IF c = 1 THEN BSub(a, b) ELSE BSub(b, a), e)

FAddAligned(sx, a, sy, b, e) ==
  IF sx = sy THEN FRound(sx, BAdd(a, b), e)
  ELSE FAddOpposite(sx, a, sy, b, e, BCmp(a, b))

Min(i, j) == IF i < j THEN i ELSE j

FAdd(x, y) ==
  IF FIsZero(x) THEN y
  ELSE IF FIsZero(y) THEN x
  ELSE FAddAligned(x.s, BShl(x.m, x.e - Min(x.e, y.e)),
                   y.s, BShl(y.m, y.e - Min(x.e, y.e)), Min(x.e, y.e))

FSub(x, y) == FAdd(x, FNeg(y))

\* the quotient d.q with the sticky bit of the remainder d.r appended
FDivRound(s, d, e) ==
  FRound(s, BAdd(BMulSmall(BNorm(d.q), 2), IF d.r = 0 THEN <<>> ELSE <<1>>), e)

\* x / (k * 2^ey), for 0 < k < 2^15
FDivSmall(x, s, k, ey) ==
  FDivRound(s, BDivSmallAt(<<0, 0, 0, 0>> \o x.m, k, Len(x.m) + 4, 0), x.e - 61 - ey)

FDivShifted(x, y, tz) == FDivSmall(x, (x.s + y.s) % 2, BShr(y.m, tz)[1], y.e + tz)

\* x / y, for a divisor y # 0 with at most 15 significant bits (an integer
\* below 2^15 times a power of two), which every divisor of the program's
\* arithmetic modelled here is (10, 11, 100, 1000 and a DC power in watts):
\* the quotient to at least 98 bits and a sticky bit, then rounded.
FDiv(x, y) == IF FIsZero(x) THEN FZero ELSE FDivShifted(x, y, BTrailingZeros(y.m))

\* -1, 0 or 1 as |x| < |y|, |x| = |y| or |x| > |y|, for x # 0 and y # 0
FCmpMag(x, y) ==
  IF x.e # y.e THEN (IF x.e < y.e THEN -1 ELSE 1) ELSE BCmp(x.m, y.m)

\* the sign of x: -1, 0 or 1
FSign(x) == IF FIsZero(x) THEN 0 ELSE IF x.s = 1 THEN -1 ELSE 1

\* -1, 0 or 1 as x < y, x = y or x > y
FCmp(x, y) ==
  IF FSign(x) # FSign(y) THEN (IF FSign(x) < FSign(y) THEN -1 ELSE 1)
  ELSE IF FSign(x) = 0 THEN 0
  ELSE FSign(x) * FCmpMag(x, y)

FLe(x, y) == FCmp(x, y) <= 0
FLt(x, y) == FCmp(x, y) < 0
FEq(x, y) == FCmp(x, y) = 0

FAbs(x) == [x EXCEPT !.s = 0]

\* Python's min(a, b) and max(a, b): the first argument unless the second is
\* strictly smaller (min) or strictly greater (max)
FMin(a, b) == IF FLt(b, a) THEN b ELSE a
FMax(a, b) == IF FLt(a, b) THEN b ELSE a

\* The float a decimal literal or CSV field n/10 denotes
Tenths(n) == FDiv(FromInt(n), FromInt(10))

(***************************************************************************)
(* Bounds of the model.                                                    *)
(***************************************************************************)
\* rows of a CSV file
MaxRows == 2
\* the cloud covers given to the estimators are 0, 25, ..., 25 * MaxCloudSteps
MaxCloudSteps == 5
\* the UV indices given to the estimators are -1 .. MaxUv
MaxUv == 12

(***************************************************************************)
(* The batch exporter's input: data/pv_data.csv as pandas reads it.  A     *)
(* frame is a sequence of rows, a row maps a column label to a cell, and a *)
(* cell is a number or a text that float() rejects.                        *)
(***************************************************************************)
Num(x) == [num |-> TRUE, val |-> x]
Text == [num |-> FALSE, val |-> FZero]

MakeRow(dc1, dc2, ac, today, total, modt, ambt, v1, v2, hour) ==
  [ c \in {"Leistung_DC_1 (W)", "Leistung_DC_2 (W)", "Leistung_AC (W)",
           "Energie_Heute (kWh)", "Energie_Gesamt (kWh)", "Modultemperatur (C)",
           "Umgebungstemperatur (C)", "Spannung_DC_1 (V)", "Spannung_DC_2 (V)",
           "Hour"} |->
      CASE c = "Leistung_DC_1 (W)"       -> Num(FromInt(dc1))
        [] c = "Leistung_DC_2 (W)"       -> Num(FromInt(dc2))
        [] c = "Leistung_AC (W)"         -> Num(FromInt(ac))
        [] c = "Energie_Heute (kWh)"     -> Num(Tenths(today))
        [] c = "Energie_Gesamt (kWh)"    -> Num(Tenths(total))
        [] c = "Modultemperatur (C)"     -> Num(Tenths(modt))
        [] c = "Umgebungstemperatur (C)" -> Num(Tenths(ambt))
        [] c = "Spannung_DC_1 (V)"       -> Num(Tenths(v1))
        [] c = "Spannung_DC_2 (V)"       -> Num(Tenths(v2))
        [] c = "Hour"                    -> Num(FromInt(hour)) ]

\* 12:00, 400 W + 600 W DC, 900 W AC, 0.9 kWh today
RowNoon == MakeRow(400, 600, 900, 9, 12345, 451, 250, 3502, 3498, 12)
\* 09:00, 120 W + 80 W DC, 190 W AC, 1.7 kWh today
RowMorning == MakeRow(120, 80, 190, 17, 12336, 302, 187, 3411, 3409, 9)
\* 23:00, no power, 0 kWh today
RowNight == MakeRow(0, 0, 0, 0, 12345, 121, 118, 0, 0, 23)

SampleRows == {RowNoon, RowMorning, RowNight}

RECURSIVE SeqsUpTo(_, _)
SeqsUpTo(S, n) ==
  IF n = 0 THEN {<<>>}
  ELSE LET shorter == SeqsUpTo(S, n - 1)
       IN  shorter \cup {Append(q, x) : q \in {r \in shorter : Len(r) = n - 1}, x \in S}

\* frames whose every cell is a number
GoodFrames == SeqsUpTo(SampleRows, MaxRows) \ {<<>>}

\* a file whose last row has a text in the module temperature column
FrameBadTemp == <<[RowNoon EXCEPT !["Modultemperatur (C)"] = Text]>>

\* a file without the AC power column
FrameNoAc ==
  <<[c \in (DOMAIN RowNoon) \ {"Leistung_AC (W)"} |-> RowNoon[c]]>>

Frames == GoodFrames \cup {FrameBadTemp, FrameNoAc}

\* What load_pv_data returns: None (read_csv raised: no file, an empty file, a
\* file it cannot parse), an empty frame (a header and no rows) or a frame.
NoFrame == [loaded |-> FALSE, rows |-> <<>>]
LoadResults ==
  {NoFrame, [loaded |-> TRUE, rows |-> <<>>]} \cup {[loaded |-> TRUE, rows |-> f] : f \in Frames}

(***************************************************************************)
(* The live exporter's input: the JSON object of the weather API.  A key   *)
(* that is absent is absent from the record's domain.                      *)
(***************************************************************************)
Payloads ==
  { [clouds |-> Num(FromInt(0)),   temp |-> Num(Tenths(184)), humidity |-> Num(FromInt(40)), wind |-> Num(Tenths(31))],
    [clouds |-> Num(FromInt(40)),  temp |-> Num(Tenths(305)), humidity |-> Num(FromInt(55)), wind |-> Num(Tenths(12))],
    [clouds |-> Num(FromInt(100)), temp |-> Num(Tenths(92)),  humidity |-> Num(FromInt(90)), wind |-> Num(Tenths(75))],
    [humidity |-> Num(FromInt(40))],
    [clouds |-> Num(FromInt(40)),  temp |-> Text,            humidity |-> Num(FromInt(55)), wind |-> Num(Tenths(12))],
    [clouds |-> Text,              temp |-> Num(Tenths(184)), humidity |-> Num(FromInt(40)), wind |-> Num(Tenths(31))] }

NoData == [fetched |-> FALSE, data |-> [humidity |-> Num(FZero)]]
FetchResults == {NoData} \cup {[fetched |-> TRUE, data |-> d] : d \in Payloads}

\* datetime.now().hour values the model draws
ClockHours == {0, 5, 6, 9, 13, 17, 20, 21, 23}

(***************************************************************************)
(* Derived-metric calculators.                                             *)
(***************************************************************************)
F100 == FromInt(100)
F040 == Tenths(4)
F060 == Tenths(6)

\* df[col].sum() over the rows, in row order
RECURSIVE ColumnSum(_, _)
ColumnSum(rows, col) ==
  IF rows = <<>> THEN FZero
  ELSE FAdd(ColumnSum(SubSeq(rows, 1, Len(rows) - 1), col), rows[Len(rows)][col].val)

TotalDc(latest) == FAdd(latest["Leistung_DC_1 (W)"].val, latest["Leistung_DC_2 (W)"].val)

EfficiencyInverted(latest) ==
  IF FLt(FZero, latest["Leistung_AC (W)"].val)
  THEN FMul(FDiv(TotalDc(latest), latest["Leistung_AC (W)"].val), F100)
  ELSE FZero

\* AC/DC ratio in percent, 0 when there is no DC power
Efficiency(latest) ==
  IF FLt(FZero, TotalDc(latest))
  THEN FMul(FDiv(latest["Leistung_AC (W)"].val, TotalDc(latest)), F100)
  ELSE FZero

ExportedEnergyHalf(total) == FMul(total, Tenths(5))

\* the 40 % of the yield taken as exported, the 60 % taken as used directly
ExportedEnergy(total) == FMul(total, F040)
SelfUseEnergy(total) == FMul(total, F060)

\* abs(math.sin((current_hour - 6) * math.pi / 14)) for the hours 6..20, as
\* CPython computes it in binary64
SinOfHour(h) ==
  CASE h = 6  -> FZero
    [] h = 7  -> [s |-> 0, m |-> <<17794, 17924, 28227, 227>>, e |-> -55]
    [] h = 8  -> [s |-> 0, m |-> <<11201, 6883, 4865, 222>>, e |-> -54]
    [] h = 9  -> [s |-> 0, m |-> <<28113, 17687, 20099, 159>>, e |-> -53]
    [] h = 10 -> [s |-> 0, m |-> <<24139, 27147, 4877, 200>>, e |-> -53]
    [] h = 11 -> [s |-> 0, m |-> <<23665, 21398, 21234, 230>>, e |-> -53]
    [] h = 12 -> [s |-> 0, m |-> <<26985, 2737, 19056, 249>>, e |-> -53]
    [] h = 13 -> [s |-> 0, m |-> <<0, 0, 0, 128>>, e |-> -52]
    [] h = 14 -> [s |-> 0, m |-> <<26985, 2737, 19056, 249>>, e |-> -53]
    [] h = 15 -> [s |-> 0, m |-> <<23665, 21398, 21234, 230>>, e |-> -53]
    [] h = 16 -> [s |-> 0, m |-> <<24140, 27147, 4877, 200>>, e |-> -53]
    [] h = 17 -> [s |-> 0, m |-> <<28117, 17687, 20099, 159>>, e |-> -53]
    [] h = 18 -> [s |-> 0, m |-> <<11203, 6883, 4865, 222>>, e |-> -54]
    [] h = 19 -> [s |-> 0, m |-> <<17783, 17924, 28227, 227>>, e |-> -55]
    [] h = 20 -> [s |-> 0, m |-> <<23559, 26152, 6296, 141>>, e |-> -105]

\* the same for the half hours 6:30 .. 19:30 (hour + 30 / 60)
SinOfHalfHour(h) ==
  CASE h = 6  -> [s |-> 0, m |-> <<28513, 26202, 9936, 229>>, e |-> -56]
    [] h = 7  -> [s |-> 0, m |-> <<10750, 5331, 3371, 169>>, e |-> -54]
    [] h = 8  -> [s |-> 0, m |-> <<19850, 17475, 6560, 136>>, e |-> -53]
    [] h = 9  -> [s |-> 0, m |-> <<15308, 19710, 633, 181>>, e |-> -53]
    [] h = 10 -> [s |-> 0, m |-> <<23108, 12826, 24949, 216>>, e |-> -53]
    [] h = 11 -> [s |-> 0, m |-> <<16261, 8378, 20779, 241>>, e |-> -53]
    [] h = 12 -> [s |-> 0, m |-> <<4959, 6344, 12790, 254>>, e |-> -53]
    [] h = 13 -> [s |-> 0, m |-> <<4959, 6344, 12790, 254>>, e |-> -53]
    [] h = 14 -> [s |-> 0, m |-> <<16261, 8378, 20779, 241>>, e |-> -53]
    [] h = 15 -> [s |-> 0, m |-> <<23109, 12826, 24949, 216>>, e |-> -53]
    [] h = 16 -> [s |-> 0, m |-> <<15309, 19710, 633, 181>>, e |-> -53]
    [] h = 17 -> [s |-> 0, m |-> <<19851, 17475, 6560, 136>>, e |-> -53]
    [] h = 18 -> [s |-> 0, m |-> <<10752, 5331, 3371, 169>>, e |-> -54]
    [] h = 19 -> [s |-> 0, m |-> <<28522, 26202, 9936, 229>>, e |-> -56]

TimeFactorShifted(current_hour) ==
  IF 7 <= current_hour /\ current_hour <= 21 THEN SinOfHour(current_hour - 1) ELSE FZero

TimeFactorNoGuard(current_hour) == SinOfHour(IF current_hour < 6 THEN 12 - current_hour
                                             ELSE IF current_hour > 20 THEN 40 - current_hour
                                             ELSE current_hour)

\* exporter_live.py: the time-of-day factor of an integer hour
TimeFactor(current_hour) ==
  IF 6 <= current_hour /\ current_hour <= 20 THEN SinOfHour(current_hour) ELSE FZero

CloudFactorInverted(cloud_cover) == FDiv(cloud_cover, F100)

CloudFactorPercent(cloud_cover) == FSub(F100, cloud_cover)

\* (100 - cloud_cover) / 100
CloudFactor(cloud_cover) == FDiv(FSub(F100, cloud_cover), F100)

\* exporter_live.py: calculate_estimated_solar_power, in watts
EstimatedPowerWatts(cloud_cover, uv_index, current_hour) ==
  LET max_power    == FromInt(5000)
      cloud_factor == CloudFactor(cloud_cover)
      uv_factor    == FMin(FDiv(uv_index, FromInt(11)), FromInt(1))
      time_factor  == TimeFactor(current_hour)
      estimated    == FMul(FMul(FMul(max_power, cloud_factor), uv_factor), time_factor)
  IN  FMax(FZero, estimated)

\* dashboard_live.py: the time-of-day factor of time_of_day.hour +
\* time_of_day.minute / 60, for the minutes 0 and 30
DashboardTimeFactor(hour, minute) ==
  IF 6 <= hour /\ (hour < 20 \/ (hour = 20 /\ minute = 0))
  THEN (IF minute = 0 THEN SinOfHour(hour) ELSE SinOfHalfHour(hour))
  ELSE FZero

\* dashboard_live.py: calculate_estimated_solar_power, in kilowatts
EstimatedPowerKw(cloud_cover, uv_index, hour, minute, temp) ==
  LET max_power    == FromInt(5)
      cloud_factor == FDiv(FSub(F100, cloud_cover), F100)
      uv_factor    == FMin(FDiv(uv_index, FromInt(10)), FromInt(1))
      time_factor  == DashboardTimeFactor(hour, minute)
      temp_factor  == FSub(FromInt(1),
                           FMul(FMax(FZero, FSub(temp, FromInt(25))), FDiv(FromInt(5), FromInt(1000))))
      estimated    == FMul(FMul(FMul(FMul(max_power, cloud_factor), uv_factor), time_factor),
                           temp_factor)
  IN  FMax(FZero, estimated)

(***************************************************************************)
(* The gauges, in the order a cycle sets them.                             *)
(***************************************************************************)
BatchGauges ==
  << "pv_power_dc1_watts", "pv_power_dc2_watts", "pv_power_ac_watts",
     "pv_energy_today_kwh", "pv_energy_total_kwh", "pv_module_temperature_celsius",
     "pv_ambient_temperature_celsius", "pv_voltage_dc1_volts", "pv_voltage_dc2_volts",
     "pv_total_dc_power_watts", "pv_efficiency_percent", "pv_exported_energy_kwh",
     "pv_self_use_energy_kwh" >>

\* the column the i-th of the first nine gauges is read from
BatchColumns ==
  << "Leistung_DC_1 (W)", "Leistung_DC_2 (W)", "Leistung_AC (W)",
     "Energie_Heute (kWh)", "Energie_Gesamt (kWh)", "Modultemperatur (C)",
     "Umgebungstemperatur (C)", "Spannung_DC_1 (V)", "Spannung_DC_2 (V)" >>

LiveGauges ==
  << "pv_estimated_power_watts", "pv_cloud_cover_percent", "pv_temperature_celsius",
     "pv_humidity_percent", "pv_wind_speed_mps", "pv_uv_index", "pv_efficiency_percent" >>

GaugesOf(prog) ==
  CASE prog = "batch" -> BatchGauges
    [] prog = "live"  -> LiveGauges
    [] OTHER          -> <<>>

Range(q) == {q[i] : i \in DOMAIN q}

\* the outcome of evaluating one gauge.set(...) statement and the statements
\* before it: the value set, or an exception raised before the gauge is set
Set(x) == [raised |-> FALSE, val |-> x]
Raised == [raised |-> TRUE, val |-> FZero]

\* prometheus_exporter.py, update_metrics: the i-th gauge.set of a cycle.  A
\* missing column raises KeyError, a text cell makes Gauge.set raise ValueError,
\* df.iloc[-1] of a frame without rows raises IndexError.
BatchSet(i, rows) ==
  LET latest == rows[Len(rows)] IN
  CASE rows = <<>> -> Raised
    [] i <= 9 ->
         IF BatchColumns[i] \notin DOMAIN latest THEN Raised
         ELSE IF ~latest[BatchColumns[i]].num THEN Raised
         ELSE Set(latest[BatchColumns[i]].val)
    [] i = 10 -> Set(TotalDc(latest))
    [] i = 11 -> Set(Efficiency(latest))
    [] i = 12 -> Set(ExportedEnergy(ColumnSum(rows, "Energie_Heute (kWh)")))
    [] i = 13 -> Set(SelfUseEnergy(ColumnSum(rows, "Energie_Heute (kWh)")))

\* data.get(key, 0) of the fields the live exporter extracts
Field(data, key) == IF key \in DOMAIN data THEN data[key] ELSE Num(FZero)

\* the UV index the live exporter assumes
DefaultUv == 5

\* exporter_live.py, fetch_and_update_metrics: the i-th gauge.set of a cycle
LiveSet(i, data, current_hour) ==
  LET cloud_cover == Field(data, "clouds") IN
  CASE i = 1 -> Set(EstimatedPowerWatts(cloud_cover.val, FromInt(DefaultUv), current_hour))
    [] i = 2 -> Set(cloud_cover.val)
    [] i = 3 -> IF Field(data, "temp").num THEN Set(Field(data, "temp").val) ELSE Raised
    [] i = 4 -> IF Field(data, "humidity").num THEN Set(Field(data, "humidity").val) ELSE Raised
    [] i = 5 -> IF Field(data, "wind").num THEN Set(Field(data, "wind").val) ELSE Raised
    [] i = 6 -> Set(FromInt(DefaultUv))
    [] i = 7 -> Set(FMul(FSub(F100, cloud_cover.val), Tenths(8)))

(***************************************************************************)
(* Where control goes when a cycle raises, and when SIGINT arrives.        *)
(***************************************************************************)
BatchInterval == 30
BatchErrorInterval == 30
POLL_INTERVAL == 300

OnCycleErrorUncaught(prog) == "Crashed"

OnCycleErrorRetry(prog) == "Fetching"

\* batch: `except Exception` of the loop prints and sleeps; live: the
\* `except Exception` of fetch_and_update_metrics prints and returns to the
\* loop, which sleeps
OnCycleError(prog) == IF prog = "batch" THEN "SleepingAfterError" ELSE "Sleeping"

\* KeyboardInterrupt is no Exception: the batch loop catches it around
\* update_metrics() and the first sleep only, the live loop nowhere
InterruptCaught(prog, at) == prog = "batch" /\ at # "SleepingAfterError"

SleepShort(prog, at) == IF at = "Sleeping" THEN <<IF prog = "batch" THEN BatchInterval ELSE POLL_INTERVAL>> ELSE <<>>

\* the time.sleep calls made in a sleeping state
SleepCalls(prog, at) ==
  CASE prog = "batch" /\ at = "Sleeping"           -> <<BatchInterval>>
    [] prog = "batch" /\ at = "SleepingAfterError" -> <<BatchErrorInterval>>
    [] prog = "live"                               -> <<POLL_INTERVAL>>

(***************************************************************************)
(* Inputs of the direct calls of the calculators.                          *)
(***************************************************************************)
CloudInputs == {25 * k : k \in 0..MaxCloudSteps}
UvInputs == (-1)..MaxUv
ClockMinutes == {0, 30}
TempInputs == {10, 25, 40, 300}

\* dashboard.py, calculate_daily_yield: per hour of the day, the yield summed
\* and its 40 % / 60 % split
DailyYield(rows) ==
  LET hours == {rows[i]["Hour"].val : i \in DOMAIN rows}
      InHour(h) == LET Test(r) == r["Hour"].val = h IN SelectSeq(rows, Test)
  IN  [h \in hours |->
         LET y == ColumnSum(InHour(h), "Energie_Heute (kWh)")
         IN  [Yield_Energy_kWh    |-> y,
              Exported_Energy_kWh |-> ExportedEnergy(y),
              SelfUse_Energy_kWh  |-> SelfUseEnergy(y)]]

(***************************************************************************)
(* State.                                                                  *)
(*   program    the script that runs: "batch" (prometheus_exporter.py),    *)
(*              "live" (exporter_live.py) or "calc" (the calculators       *)
(*              called directly, as the dashboards call them)              *)
(*   pc         the refresh loop's position                                *)
(*   idx        in Publishing, the position of the next gauge.set          *)
(*   input      what the cycle's load or fetch returned                    *)
(*   now_hour   the live exporter's datetime.now().hour of this cycle      *)
(*   gauges     the value of every registered gauge                        *)
(*   written    the gauges set since the current cycle started             *)
(*   slept      the time.sleep calls completed since the last load/fetch   *)
(*   last       how the last finished cycle ended                          *)
(*   stoppedAt  the position SIGINT arrived at, "none" before              *)
(*   exit       "running", "graceful" (shutdown message, status 0) or      *)
(*              "uncaught" (traceback, non-zero status)                    *)
(*   result     the arguments and the value of the last direct call        *)
(*   scraped    the sample line the metrics endpoint emitted in the step   *)
(*              just taken: the gauge's name and value; "none" when the    *)
(*              step was one of the refresh loop                           *)
(***************************************************************************)
\* no sample line was emitted
NoSample == [g |-> "none", v |-> FZero]

VARIABLES program, pc, idx, input, now_hour, gauges, written, slept, last,
          stoppedAt, exit, result, scraped

vars == <<program, pc, idx, input, now_hour, gauges, written, slept, last,
          stoppedAt, exit, result, scraped>>

Init ==
  /\ program \in {"batch", "live", "calc"}
  /\ pc = "Idle"
  /\ idx = 0
  /\ input = (IF program = "live" THEN NoData ELSE NoFrame)
  /\ now_hour = 0
  /\ gauges = [g \in Range(GaugesOf(program)) |-> FZero]
  /\ written = {}
  /\ slept = <<>>
  /\ last = "none"
  /\ stoppedAt = "none"
  /\ exit = "running"
  /\ result = [kind |-> "none"]
  /\ scraped = NoSample

\* `while True:` reaches update_metrics() / fetch_and_update_metrics()
StartCycle ==
  /\ program \in {"batch", "live"}
  /\ pc = "Idle"
  /\ pc' = "Fetching"
  /\ written' = {}
  /\ UNCHANGED <<program, idx, input, now_hour, gauges, slept, last, stoppedAt, exit, result>>
  /\ scraped' = NoSample

LoadSkipsNoneOnly(r) == ~r.loaded

\* update_metrics: `if df is None or df.empty: return`
LoadSkips(r) == ~r.loaded \/ r.rows = <<>>

\* update_metrics: load_pv_data() and the return on no data
LoadData ==
  /\ program = "batch"
  /\ pc = "Fetching"
  /\ \E r \in LoadResults :
       /\ input' = r
       /\ IF LoadSkips(r)
          THEN pc' = "Sleeping" /\ idx' = 0 /\ last' = "skipped"
          ELSE pc' = "Publishing" /\ idx' = 1 /\ last' = last
  /\ slept' = <<>>
  /\ UNCHANGED <<program, now_hour, gauges, written, stoppedAt, exit, result>>
  /\ scraped' = NoSample

\* fetch_and_update_metrics: requests.get, raise_for_status and json()
FetchData ==
  /\ program = "live"
  /\ pc = "Fetching"
  /\ \E r \in FetchResults :
       /\ input' = r
       /\ IF ~r.fetched
          THEN pc' = OnCycleError(program) /\ last' = "skipped"
          ELSE pc' = "Computing" /\ last' = last
  /\ slept' = <<>>
  /\ UNCHANGED <<program, idx, now_hour, gauges, written, stoppedAt, exit, result>>
  /\ scraped' = NoSample

\* fetch_and_update_metrics: the fields extracted and the estimate computed;
\* a cloud cover that is no number raises TypeError
ComputeLive ==
  /\ program = "live"
  /\ pc = "Computing"
  /\ \E h \in ClockHours : now_hour' = h
  /\ IF Field(input.data, "clouds").num
     THEN pc' = "Publishing" /\ idx' = 1 /\ last' = last
     ELSE pc' = OnCycleError(program) /\ idx' = 0 /\ last' = "failed"
  /\ UNCHANGED <<program, input, gauges, written, slept, stoppedAt, exit, result>>
  /\ scraped' = NoSample

\* Publish with the registry cleared before the first gauge.set of a cycle
PublishClearing ==
  /\ program \in {"batch", "live"}
  /\ pc = "Publishing"
  /\ LET names == GaugesOf(program)
         out   == IF program = "batch" THEN BatchSet(idx, input.rows)
                  ELSE LiveSet(idx, input.data, now_hour)
         base  == IF idx = 1 THEN [g \in Range(names) |-> FZero] ELSE gauges
     IN  IF out.raised
         THEN /\ pc' = OnCycleError(program)
              /\ idx' = 0
              /\ last' = "failed"
              /\ gauges' = base
              /\ UNCHANGED written
         ELSE /\ gauges' = [base EXCEPT ![names[idx]] = out.val]
              /\ written' = written \cup {names[idx]}
              /\ IF idx = Len(names)
                 THEN pc' = "Sleeping" /\ idx' = 0 /\ last' = "ok"
                 ELSE pc' = pc /\ idx' = idx + 1 /\ last' = last
  /\ UNCHANGED <<program, input, now_hour, slept, stoppedAt, exit, result>>
  /\ scraped' = NoSample

\* one gauge.set(...) of the cycle, or the exception raised in its place; the
\* cycle's closing print follows the last one
Publish ==
  /\ program \in {"batch", "live"}
  /\ pc = "Publishing"
  /\ LET names == GaugesOf(program)
         out   == IF program = "batch" THEN BatchSet(idx, input.rows)
                  ELSE LiveSet(idx, input.data, now_hour)
     IN  IF out.raised
         THEN /\ pc' = OnCycleError(program)
              /\ idx' = 0
              /\ last' = "failed"
              /\ UNCHANGED <<gauges, written>>
         ELSE /\ gauges' = [gauges EXCEPT ![names[idx]] = out.val]
              /\ written' = written \cup {names[idx]}
              /\ IF idx = Len(names)
                 THEN pc' = "Sleeping" /\ idx' = 0 /\ last' = "ok"
                 ELSE pc' = pc /\ idx' = idx + 1 /\ last' = last
  /\ UNCHANGED <<program, input, now_hour, slept, stoppedAt, exit, result>>
  /\ scraped' = NoSample

\* time.sleep(...) returns
Sleep ==
  /\ pc \in {"Sleeping", "SleepingAfterError"}
  /\ slept' = slept \o SleepCalls(program, pc)
  /\ pc' = "Idle"
  /\ UNCHANGED <<program, idx, input, now_hour, gauges, written, last, stoppedAt, exit, result>>
  /\ scraped' = NoSample

\* SIGINT: KeyboardInterrupt is raised where the main thread is
Interrupt ==
  /\ program \in {"batch", "live"}
  /\ exit = "running"
  /\ pc \notin {"Crashed"}
  /\ stoppedAt' = pc
  /\ pc' = "Stopped"
  /\ exit' = (IF InterruptCaught(program, pc) THEN "graceful" ELSE "uncaught")
  /\ UNCHANGED <<program, idx, input, now_hour, gauges, written, slept, last, result>>
  /\ scraped' = NoSample

\* exporter_live.py's calculate_estimated_solar_power called
CallEstimatedPowerWatts ==
  /\ program = "calc"
  /\ pc = "Idle"
  /\ pc' = "Returned"
  /\ \E c \in CloudInputs, u \in UvInputs, h \in ClockHours :
       result' = [kind |-> "watts", cloud |-> c, uv |-> u, hour |-> h, minute |-> 0,
                  temp |-> 25,
                  power |-> EstimatedPowerWatts(FromInt(c), FromInt(u), h)]
  /\ UNCHANGED <<program, idx, input, now_hour, gauges, written, slept, last, stoppedAt, exit>>
  /\ scraped' = NoSample

\* dashboard_live.py's calculate_estimated_solar_power called
CallEstimatedPowerKw ==
  /\ program = "calc"
  /\ pc = "Idle"
  /\ pc' = "Returned"
  /\ \E c \in CloudInputs, u \in UvInputs, h \in ClockHours, mi \in ClockMinutes, t \in TempInputs :
       result' = [kind |-> "kilowatts", cloud |-> c, uv |-> u, hour |-> h, minute |-> mi,
                  temp |-> t,
                  power |-> EstimatedPowerKw(FromInt(c), FromInt(u), h, mi, FromInt(t))]
  /\ UNCHANGED <<program, idx, input, now_hour, gauges, written, slept, last, stoppedAt, exit>>
  /\ scraped' = NoSample

\* dashboard.py, main: the day's totals and calculate_daily_yield
RenderDashboard ==
  /\ program = "calc"
  /\ pc = "Idle"
  /\ pc' = "Returned"
  /\ \E f \in GoodFrames :
       result' = [kind |-> "yield", rows |-> f,
                  total_yield    |-> ColumnSum(f, "Energie_Heute (kWh)"),
                  total_exported |-> ExportedEnergy(ColumnSum(f, "Energie_Heute (kWh)")),
                  total_self_use |-> SelfUseEnergy(ColumnSum(f, "Energie_Heute (kWh)")),
                  daily_yield    |-> DailyYield(f)]
  /\ UNCHANGED <<program, idx, input, now_hour, gauges, written, slept, last, stoppedAt, exit>>
  /\ scraped' = NoSample

\* the caller takes the value; the next call is independent of it
Return ==
  /\ program = "calc"
  /\ pc = "Returned"
  /\ pc' = "Idle"
  /\ result' = [kind |-> "none"]
  /\ UNCHANGED <<program, idx, input, now_hour, gauges, written, slept, last, stoppedAt, exit>>
  /\ scraped' = NoSample

\* the metrics thread started by start_http_server answers a scrape: it emits
\* one sample line per registered gauge, each with the value the gauge holds
\* when its line is written; the refresh loop runs on between two lines
Scrape ==
  /\ program \in {"batch", "live"}
  /\ exit = "running"
  /\ \E g \in Range(GaugesOf(program)) : scraped' = [g |-> g, v |-> gauges[g]]
  /\ UNCHANGED <<program, pc, idx, input, now_hour, gauges, written, slept, last,
                 stoppedAt, exit, result>>

Next ==
  \/ StartCycle
  \/ LoadData
  \/ FetchData
  \/ ComputeLive
  \/ Publish
  \/ Sleep
  \/ Interrupt
  \/ CallEstimatedPowerWatts
  \/ CallEstimatedPowerKw
  \/ RenderDashboard
  \/ Return

Spec == Init /\ [][Next]_vars

\* weak fairness of Publish, with ENABLED <<Publish>>_vars written out: the
\* statement at a gauge.set either sets the gauge or raises, so Publish is
\* enabled exactly where pc = "Publishing"
FairPublish == []<>(pc # "Publishing") \/ []<><<Publish>>_vars

\* the main thread is scheduled, a read of the local file returns, the request
\* returns or times out (timeout=10), and time.sleep returns
SpecFair ==
  /\ Init /\ [][Next]_vars
  /\ WF_vars(StartCycle) /\ WF_vars(LoadData) /\ WF_vars(FetchData)
  /\ WF_vars(ComputeLive) /\ FairPublish /\ WF_vars(Sleep)

\* an exporter started
InitExporter == Init /\ program \in {"batch", "live"}

\* the refresh loop, left to run, together with the metrics thread
NextScrape ==
  \/ StartCycle
  \/ LoadData
  \/ FetchData
  \/ ComputeLive
  \/ Publish
  \/ Sleep
  \/ Scrape

SpecScrape == InitExporter /\ [][NextScrape]_vars

(***************************************************************************)
(* Properties.                                                             *)
(***************************************************************************)
Running == program \in {"batch", "live"}
AllGauges == Range(GaugesOf(program))
Sleeps == {"Sleeping", "SleepingAfterError"}
LoopStates == {"Idle", "Fetching", "Computing", "Publishing", "Sleeping", "SleepingAfterError"}
Latest == input.rows[Len(input.rows)]

\* C1: a refresh cycle is all-or-nothing: when a cycle has ended (the loop
\* sleeps), either every registered gauge was written by it or none was.
C1_AllOrNothing ==
  (Running /\ pc \in Sleeps) => (written = {} \/ written = AllGauges)

\* C2: no failure of a cycle ends the refresh loop: as long as no interrupt
\* has arrived the process runs and is at a position of the loop.
C2_FailuresNeverTerminate ==
  (Running /\ stoppedAt = "none") => (exit = "running" /\ pc \in LoopStates)

\* a cycle has failed or was skipped, the loop slept and attempts the next one
C2_Witness ==
  Running /\ last = "failed" /\ pc = "Fetching" /\ stoppedAt = "none" /\ slept # <<>>

\* the load or fetch of the cycle failed: no file, an empty file or frame, a
\* malformed file; a network error, a non-2xx status, a body that is no JSON
LoadFailed(prog, inp) ==
  IF prog = "batch" THEN (~inp.loaded \/ inp.rows = <<>>) ELSE ~inp.fetched

\* C3: when the load/fetch step fails the loop goes from Fetching straight to
\* Sleeping and no gauge changes; Computing and Publishing are entered from
\* Fetching only after a load/fetch that succeeded; starting a cycle changes
\* no gauge either.
C3_FailedLoadSkipsCycle ==
  [][ /\ (pc = "Fetching" /\ pc' \notin {"Fetching", "Stopped"}) =>
           IF LoadFailed(program, input')
           THEN pc' \in Sleeps /\ gauges' = gauges /\ written' = {}
           ELSE pc' \in {"Computing", "Publishing"}
      /\ (pc = "Idle" /\ pc' = "Fetching") => gauges' = gauges
      /\ (pc' = "Computing" /\ pc # "Computing") => (pc = "Fetching" /\ ~LoadFailed(program, input'))
      /\ (pc' = "Publishing" /\ pc # "Publishing") =>
           (pc \in {"Fetching", "Computing"} /\ ~LoadFailed(program, input')) ]_vars

\* a cycle was skipped on a failed load while the gauges held earlier values
C3_Witness ==
  /\ Running /\ last = "skipped" /\ pc = "Sleeping" /\ written = {}
  /\ \E g \in AllGauges : gauges[g] # FZero

\* C4: an interrupt in any loop state ends the loop with the shutdown message
\* and exit status 0, never with an uncaught exception.
C4_InterruptIsGraceful ==
  (Running /\ stoppedAt # "none") => exit = "graceful"

\* C5: an interrupt never cancels a cycle in progress: the loop ends only
\* between cycles, the cycle the interrupt arrived in having run to its end.
C5_InterruptNeverCancelsCycle ==
  (Running /\ pc = "Stopped") => stoppedAt \notin {"Fetching", "Computing", "Publishing"}

\* the configured interval of the program
Interval == IF program = "batch" THEN 30 ELSE 300

\* C6: between two consecutive load/fetch attempts there is exactly one sleep
\* of the full interval, whether the earlier cycle succeeded or failed: when
\* an attempt is about to be made, the sleeps since the attempt before are one
\* sleep of the interval (none before the first attempt).
C6_OneFullSleepBetweenAttempts ==
  (Running /\ pc = "Fetching") =>
     slept = (IF last = "none" THEN <<>> ELSE <<Interval>>)

\* the next attempt after a cycle that raised
C6_Witness ==
  program = "batch" /\ pc = "Fetching" /\ last = "failed" /\ slept = <<30>>

\* C7: the batch exporter sets the efficiency gauge to AC / (DC1 + DC2) * 100
\* when the total DC power is above 0 (1000 W DC and 900 W AC give 90) and
\* to 0 when it is 0, without raising.
C7_Efficiency ==
  (program = "batch" /\ "pv_efficiency_percent" \in written) =>
     LET dc == FAdd(Latest["Leistung_DC_1 (W)"].val, Latest["Leistung_DC_2 (W)"].val)
         ac == Latest["Leistung_AC (W)"].val
         e  == gauges["pv_efficiency_percent"]
     IN  /\ FLt(FZero, dc) => e = FMul(FDiv(ac, dc), FromInt(100))
         /\ dc = FZero => e = FZero
         /\ (dc = FromInt(1000) /\ ac = FromInt(900)) => e = FromInt(90)

\* 1000 W DC, 900 W AC published as 90 %
C7_Witness ==
  /\ program = "batch" /\ "pv_efficiency_percent" \in written
  /\ TotalDc(Latest) = FromInt(1000) /\ Latest["Leistung_AC (W)"].val = FromInt(900)
  /\ gauges["pv_efficiency_percent"] = FromInt(90)

\* the places the 40 % / 60 % split is made: <<yield, exported, self-use>> of
\* the batch exporter's gauges after a successful cycle, of the dashboard's
\* totals and of every hourly row of calculate_daily_yield
Splits ==
  (IF program = "batch" /\ last = "ok" /\ pc = "Sleeping"
   THEN {<<ColumnSum(input.rows, "Energie_Heute (kWh)"),
           gauges["pv_exported_energy_kwh"], gauges["pv_self_use_energy_kwh"]>>}
   ELSE {})
  \cup
  (IF result.kind = "yield"
   THEN {<<result.total_yield, result.total_exported, result.total_self_use>>}
        \cup {<<result.daily_yield[h].Yield_Energy_kWh,
                result.daily_yield[h].Exported_Energy_kWh,
                result.daily_yield[h].SelfUse_Energy_kWh>> : h \in DOMAIN result.daily_yield}
   ELSE {})

\* C8 as stated: exported plus self-use equals the total yield.
C8_SplitSumsExactly ==
  \A t \in Splits : FAdd(t[2], t[3]) = t[1]

\* |x - y| <= 2^-51 * y, for y >= 0
WithinTolerance(x, y) ==
  FLe(FAbs(FSub(x, y)), IF FIsZero(y) THEN FZero ELSE [y EXCEPT !.e = @ - 51])

\* C8, amended: exported plus self-use equals the total yield to within
\* floating-point tolerance, a relative error of at most 2^-51.
C8_SplitSumsWithinTolerance ==
  \A t \in Splits : WithinTolerance(FAdd(t[2], t[3]), t[1])

\* a published split whose sum is not the yield exactly
C8_Witness ==
  /\ program = "batch" /\ last = "ok" /\ pc = "Sleeping"
  /\ \E t \in Splits : FAdd(t[2], t[3]) # t[1] /\ FLt(FZero, t[1])

\* the estimate of the variant result.kind names, at the arguments of the last
\* call with cloud cover c and UV index u in their place
EstimateAt(c, u) ==
  IF result.kind = "watts"
  THEN EstimatedPowerWatts(FromInt(c), FromInt(u), result.hour)
  ELSE EstimatedPowerKw(FromInt(c), FromInt(u), result.hour, result.minute,
                        FromInt(result.temp))

IsEstimate == result.kind \in {"watts", "kilowatts"}

\* C9: for cloud cover in [0, 100] and UV index >= 0, at any hour and
\* temperature, both estimators return a value >= 0 that does not increase
\* with the cloud cover and does not decrease with the UV index (stated for
\* the next larger cloud cover and UV index of the inputs; <= is transitive).
C9_EstimateMonotone ==
  (IsEstimate /\ result.cloud \in 0..100 /\ result.uv >= 0) =>
     /\ FLe(FZero, result.power)
     /\ result.cloud + 25 <= 100 =>
          FLe(EstimateAt(result.cloud + 25, result.uv), result.power)
     /\ result.uv + 1 \in UvInputs =>
          FLe(result.power, EstimateAt(result.cloud, result.uv + 1))

\* a call whose estimate falls strictly with more clouds and rises strictly
\* with more UV
C9_Witness ==
  /\ result.kind = "kilowatts" /\ result.cloud = 25 /\ result.uv = 5
  /\ result.hour = 9 /\ result.minute = 30 /\ result.temp = 40
  /\ FLt(EstimateAt(50, 5), result.power)
  /\ FLt(result.power, EstimateAt(25, 6))

\* the hour of the day of the last call is below 6 or above 20
AtNight ==
  result.hour < 6 \/ result.hour > 20 \/ (result.hour = 20 /\ result.minute > 0)

\* C10: below hour 6 and above hour 20 both estimators return exactly 0 for
\* every cloud cover, UV index and temperature, those out of range included.
C10_ZeroAtNight ==
  (IsEstimate /\ AtNight) => result.power = FZero

\* a night call with cloud cover above 100 and a negative UV index
C10_Witness ==
  /\ result.kind = "watts" /\ result.hour = 23 /\ result.cloud > 100 /\ result.uv < 0
  /\ result.power = FZero

\* C11: with cloud cover 0, UV index 11 and hour 13 each estimator returns its
\* nameplate maximum: 5000 W in the live exporter, 5.0 kW in the live
\* dashboard at a temperature of 25 degrees C or below.
C11_NameplateAtPeak ==
  (IsEstimate /\ result.cloud = 0 /\ result.uv = 11 /\ result.hour = 13 /\ result.minute = 0) =>
     /\ result.kind = "watts" => result.power = FromInt(5000)
     /\ (result.kind = "kilowatts" /\ result.temp <= 25) => result.power = FromInt(5)

\* the dashboard's estimate at the peak on a cool day
C11_Witness ==
  /\ result.kind = "kilowatts" /\ result.cloud = 0 /\ result.uv = 11
  /\ result.hour = 13 /\ result.minute = 0 /\ result.temp = 10
  /\ result.power = FromInt(5)

\* the position of gauge g in the order exporter prog sets the gauges
PositionOf(prog, g) == CHOOSE i \in DOMAIN GaugesOf(prog) : GaugesOf(prog)[i] = g

\* the value a cycle of exporter prog with input inp at hour h writes to gauge g
CycleValue(prog, inp, h, g) ==
  IF prog = "batch" THEN BatchSet(PositionOf(prog, g), inp.rows).val
  ELSE LiveSet(PositionOf(prog, g), inp.data, h).val

\* C12: a scrape may fall between any two steps of an update.  The value it
\* emits for a gauge is the value the current cycle wrote if the cycle has
\* written the gauge, and otherwise the value the gauge had before the cycle:
\* a cycle changes a gauge only by its one write of the gauge, to the cycle's
\* value.  The scrape changes nothing of the update's state.
C12_ScrapeReadsOldOrNew ==
  [][ /\ scraped'.g # "none" =>
           /\ scraped'.v = (IF scraped'.g \in written THEN CycleValue(program, input, now_hour, scraped'.g)
                            ELSE gauges[scraped'.g])
           /\ UNCHANGED <<pc, idx, input, now_hour, gauges, written, slept, last, exit>>
      /\ \A g \in AllGauges :
           gauges'[g] # gauges[g] =>
             (g \notin written /\ g \in written' /\ gauges'[g] = CycleValue(program, input, now_hour, g)) ]_vars

\* a scrape in the middle of an update emitted a gauge the cycle had written
\* while other gauges still held the values of the cycle before
C12_Witness ==
  /\ program = "batch" /\ pc = "Publishing" /\ scraped.g \in written
  /\ scraped.v # FZero /\ written # AllGauges
  /\ \E g \in AllGauges \ written : gauges[g] # FZero

\* C13: a scrape taken before any cycle has set a gauge emits no sample for
\* any gauge, in particular no 0.
C13_UnsetGaugesNotEmitted ==
  (Running /\ last = "none" /\ written = {}) => scraped.g = "none"

\* C14: every gauge value a successful cycle of the batch exporter publishes
\* is determined by the last row of the file: it is the value a file holding
\* that row alone gives.
C14_LatestRowDetermines ==
  (program = "batch" /\ last = "ok" /\ pc = "Sleeping") =>
     \A i \in DOMAIN BatchGauges : gauges[BatchGauges[i]] = BatchSet(i, <<Latest>>).val

\* C15: under fair scheduling, unless an interrupt stops the process, every
\* cycle that starts reaches a sleep, every sleep is followed by the start of
\* a cycle, and cycles are attempted again and again.
C15_LoopNeverEnds ==
  /\ (Running /\ pc = "Fetching") ~> (pc \in Sleeps \/ pc = "Stopped")
  /\ (Running /\ pc \in Sleeps) ~> (pc = "Fetching" \/ pc = "Stopped")
  /\ Running => []<>(pc = "Fetching" \/ pc = "Stopped")

\* a cycle that raised while publishing has reached its sleep
C15_Witness ==
  Running /\ pc \in Sleeps /\ last = "failed" /\ written # {} /\ stoppedAt = "none"

\* C16: the live exporter's pv_estimated_power_watts gauge is never below 0
\* and never above 5000, at any hour and after any sequence of cycles.
C16_EstimateWithinNameplate ==
  program = "live" =>
     /\ FLe(FZero, gauges["pv_estimated_power_watts"])
     /\ FLe(gauges["pv_estimated_power_watts"], FromInt(5000))

\* a positive estimate still published after a later cycle failed
C16_Witness ==
  /\ program = "live" /\ last = "failed" /\ pc = "Sleeping"
  /\ "pv_estimated_power_watts" \notin written
  /\ FLt(FZero, gauges["pv_estimated_power_watts"])

\* C17: while the batch exporter sleeps between cycles and some cycle has
\* written gauges, pv_total_dc_power_watts is pv_power_dc1_watts plus
\* pv_power_dc2_watts.
C17_TotalDcConsistent ==
  (program = "batch" /\ pc \in Sleeps
     /\ (written # {} \/ \E g \in AllGauges : gauges[g] # FZero)) =>
     gauges["pv_total_dc_power_watts"] =
       FAdd(gauges["pv_power_dc1_watts"], gauges["pv_power_dc2_watts"])
====
